---- MODULE Spec2Model ----
(***************************************************************************)
(* A model of pulsar's asyncio fallback (Future, Task, the ready queue of  *)
(* the event loop) and of its event dispatchers (Event, OneTime and the    *)
(* EventHandler that holds them by name).                                  *)
(*                                                                         *)
(* Objects are named by strings.  The fields of every Future and Task are  *)
(* functions from the object's name to the field's value.  A method is an  *)
(* operator from a heap (a record of all the fields) to the heap it leaves *)
(* behind, together with the value it returns or the exception it raises;  *)
(* an action applies one method to the current heap.                       *)
(***************************************************************************)
EXTENDS Integers, Sequences, FiniteSets, TLC

\* ------------------------------------------------------------------------
\* The objects and the inputs of the explored runs.

\* Plain Future objects, all constructed by Future.__init__.
Futures == {"f1", "f2"}

\* Task objects, constructed during the run by Task.__init__.
Tasks == {"t1", "t2"}

AllFuts == Futures \cup Tasks

\* Done callbacks passed to add_done_callback by the environment.
CbIds == {"a", "b"}

\* Results passed to set_result and exceptions passed to set_exception.
Vals == {"v7", "v8"}
Errs == {"boom"}

\* The most callbacks that are registered or scheduled in one run.
MaxWork == 2

None == "None"
PENDING == "PENDING"
CANCELLED == "CANCELLED"
FINISHED == "FINISHED"

VARIABLES
    state,        \* Future._state
    result,       \* Future._result
    exception,    \* Future._exception
    callbacks,    \* Future._callbacks
    tb_logger,    \* Future._tb_logger (the state of the logger it refers to)
    ready,        \* BaseEventLoop._ready
    ran,          \* the handles the loop has run, in the order it ran them
    enqueued,     \* the handles given to call_soon, in the order of the calls
    regs,         \* per Future, the callbacks added and not removed while pending
    sink,         \* what was reported to the error sink (the logger)
    ret,          \* the last call: its method, target, argument and outcome
    fut_waiter,   \* Task._fut_waiter
    must_cancel,  \* Task._must_cancel
    coro,         \* Task._coro: the computation and where it is suspended
    resumed,      \* per Task, what its computation received at each resumption
    all_tasks,    \* Task._all_tasks
    cancel_log,   \* per Task, the cancel() calls that returned True
    handlers,     \* Event._handlers
    fired,        \* Event._fired
    silenced,     \* AbstractEvent._silenced
    calls,        \* the callback invocations of the last Event.fire, in order
    asyncd,       \* the generators the last Event.fire handed to async()
    events,       \* per EventHandler, EventHandler._events: name -> dispatcher
    delivered,    \* the callbacks the dispatchers of the EventHandlers invoked
    copying       \* the copy_many_times_events call that is in its loops

futVars == <<state, result, exception, callbacks, tb_logger, ready, ran,
             enqueued, regs>>
taskVars == <<fut_waiter, must_cancel, coro, resumed, all_tasks, cancel_log>>
eventVars == <<handlers, fired, silenced, calls, asyncd>>
handlerVars == <<events, delivered, copying>>
vars == <<futVars, taskVars, eventVars, handlerVars, sink, ret>>

\* ------------------------------------------------------------------------
\* The heap, and the outcome of a call.

Heap ==
    [state |-> state, result |-> result, exception |-> exception,
     callbacks |-> callbacks, tb_logger |-> tb_logger, ready |-> ready,
     ran |-> ran, enqueued |-> enqueued, regs |-> regs, sink |-> sink,
     fut_waiter |-> fut_waiter, must_cancel |-> must_cancel, coro |-> coro,
     resumed |-> resumed, all_tasks |-> all_tasks, cancel_log |-> cancel_log]

Commit(h) ==
    /\ state' = h.state
    /\ result' = h.result
    /\ exception' = h.exception
    /\ callbacks' = h.callbacks
    /\ tb_logger' = h.tb_logger
    /\ ready' = h.ready
    /\ ran' = h.ran
    /\ enqueued' = h.enqueued
    /\ regs' = h.regs
    /\ sink' = h.sink
    /\ fut_waiter' = h.fut_waiter
    /\ must_cancel' = h.must_cancel
    /\ coro' = h.coro
    /\ resumed' = h.resumed
    /\ all_tasks' = h.all_tasks
    /\ cancel_log' = h.cancel_log

\* A call returns val (exc = None) or raises exc, and leaves the heap h.
Out(h, val, exc) == [h |-> h, val |-> val, exc |-> exc]

\* What ret records of a call.
Call(op, fut, arg, out, n) ==
    [op |-> op, fut |-> fut, arg |-> arg, val |-> out.val, exc |-> out.exc,
     n |-> n]

\* A done callback of the environment, and a Task's bound _wakeup method.
EnvCb(c) == [kind |-> "cb", id |-> c]
WakeupCb(t) == [kind |-> "wakeup", id |-> t]

\* TimerHandle(None, callback, args): the callback and its argument.
Handle(cb, arg) == [kind |-> cb.kind, id |-> cb.id, arg |-> arg]
StepHandle(t) == [kind |-> "step", id |-> t, arg |-> None]
ActivateHandle(f) == [kind |-> "activate", id |-> f, arg |-> None]

\* ------------------------------------------------------------------------
\* BaseEventLoop

BaseEventLoop_call_soon_front(h, hd) ==
    [h EXCEPT !.ready = <<hd>> \o @, !.enqueued = Append(@, hd)]

BaseEventLoop_call_soon(h, hd) ==
    [h EXCEPT !.ready = Append(@, hd), !.enqueued = Append(@, hd)]

\* call_soon for each handle of hs, in order.
RECURSIVE CallSoonAll(_, _)
CallSoonAll(h, hs) ==
    IF hs = <<>> THEN h
    ELSE CallSoonAll(BaseEventLoop_call_soon(h, Head(hs)), Tail(hs))

\* ------------------------------------------------------------------------
\* Future

\* Faulty variant: the callbacks are called at once instead of being scheduled.
Future__schedule_callbacks_inline(h, f) ==
    LET cbs == h.callbacks[f]
        hs == [i \in 1..Len(cbs) |-> Handle(cbs[i], f)]
    IN  [h EXCEPT !.callbacks[f] = <<>>, !.ran = @ \o hs]

\* Faulty variant: the callbacks are scheduled last registered first.
Future__schedule_callbacks_reversed(h, f) ==
    LET cbs == h.callbacks[f]
        n == Len(cbs)
        hs == [i \in 1..n |-> Handle(cbs[n + 1 - i], f)]
    IN  CallSoonAll([h EXCEPT !.callbacks[f] = <<>>], hs)

Future__schedule_callbacks(h, f) ==
    LET cbs == h.callbacks[f]
        hs == [i \in 1..Len(cbs) |-> Handle(cbs[i], f)]
    IN  IF cbs = <<>> THEN h
        ELSE CallSoonAll([h EXCEPT !.callbacks[f] = <<>>], hs)

\* Faulty variant: a settled Future is cancelled again.
Future_cancel_always(h, f) ==
    Out(Future__schedule_callbacks([h EXCEPT !.state[f] = CANCELLED], f),
        "True", None)

Future_cancel(h, f) ==
    IF h.state[f] # PENDING THEN Out(h, "False", None)
    ELSE Out(Future__schedule_callbacks([h EXCEPT !.state[f] = CANCELLED], f),
             "True", None)

Future_done(h, f) == h.state[f] # PENDING

\* result() and exception() clear the traceback logger and drop it.
ClearTbLogger(h, f) ==
    IF h.tb_logger[f] \in {"created", "logged"}
    THEN [h EXCEPT !.tb_logger[f] = "cleared"]
    ELSE h

\* Faulty variant: a cancelled Future reports its stored result.
Future_result_nocancelcheck(h, f) ==
    IF h.state[f] = PENDING THEN Out(h, None, "InvalidStateError")
    ELSE LET h1 == ClearTbLogger(h, f)
         IN  IF h1.exception[f] # None THEN Out(h1, None, h1.exception[f])
             ELSE Out(h1, h1.result[f], None)

Future_result(h, f) ==
    IF h.state[f] = CANCELLED THEN Out(h, None, "CancelledError")
    ELSE IF h.state[f] # FINISHED THEN Out(h, None, "InvalidStateError")
    ELSE LET h1 == ClearTbLogger(h, f)
         IN  IF h1.exception[f] # None THEN Out(h1, None, h1.exception[f])
             ELSE Out(h1, h1.result[f], None)

Future_exception(h, f) ==
    IF h.state[f] = CANCELLED THEN Out(h, None, "CancelledError")
    ELSE IF h.state[f] # FINISHED THEN Out(h, None, "InvalidStateError")
    ELSE LET h1 == ClearTbLogger(h, f)
         IN  Out(h1, h1.exception[f], None)

\* Faulty variant: on a settled Future the callback is put on the pending list.
Future_add_done_callback_append(h, f, cb) ==
    Out([h EXCEPT !.callbacks[f] = Append(@, cb), !.regs[f] = Append(@, cb)],
        None, None)

Future_add_done_callback(h, f, cb) ==
    LET h1 == [h EXCEPT !.regs[f] = Append(@, cb)]
    IN  IF h.state[f] # PENDING
        THEN Out(BaseEventLoop_call_soon(h1, Handle(cb, f)), None, None)
        ELSE Out([h1 EXCEPT !.callbacks[f] = Append(@, cb)], None, None)

Future_remove_done_callback(h, f, cb) ==
    LET keep(x) == x # cb
        filtered == SelectSeq(h.callbacks[f], keep)
        removed_count == Len(h.callbacks[f]) - Len(filtered)
    IN  IF removed_count > 0
        THEN [h |-> [h EXCEPT !.callbacks[f] = filtered,
                              !.regs[f] = SelectSeq(@, keep)],
              n |-> removed_count]
        ELSE [h |-> h, n |-> 0]

\* Faulty variant: the state is not checked, so a settled Future gets a new result.
Future_set_result_unchecked(h, f, v) ==
    Out(Future__schedule_callbacks(
            [h EXCEPT !.result[f] = v, !.state[f] = FINISHED], f),
        None, None)

Future_set_result(h, f, v) ==
    IF h.state[f] # PENDING THEN Out(h, None, "InvalidStateError")
    ELSE Out(Future__schedule_callbacks(
                 [h EXCEPT !.result[f] = v, !.state[f] = FINISHED], f),
             None, None)

\* Faulty variant: the logger is activated ahead of the callbacks.
Future_set_exception_auditfirst(h, f, e) ==
    IF h.state[f] # PENDING THEN Out(h, None, "InvalidStateError")
    ELSE LET h1 == [h EXCEPT !.exception[f] = e, !.state[f] = FINISHED,
                             !.tb_logger[f] = "created"]
             h2 == BaseEventLoop_call_soon(h1, ActivateHandle(f))
         IN  Out(Future__schedule_callbacks(h2, f), None, None)

\* Faulty variant: the state is not checked, so a settled Future is settled again.
Future_set_exception_unchecked(h, f, e) ==
    LET h1 == Future__schedule_callbacks(
                  [h EXCEPT !.exception[f] = e, !.state[f] = FINISHED], f)
        h2 == [h1 EXCEPT !.tb_logger[f] = "created"]
    IN  Out(BaseEventLoop_call_soon(h2, ActivateHandle(f)), None, None)

Future_set_exception(h, f, e) ==
    IF h.state[f] # PENDING THEN Out(h, None, "InvalidStateError")
    ELSE LET h1 == Future__schedule_callbacks(
                       [h EXCEPT !.exception[f] = e, !.state[f] = FINISHED], f)
             h2 == [h1 EXCEPT !.tb_logger[f] = "created"]
         IN  Out(BaseEventLoop_call_soon(h2, ActivateHandle(f)), None, None)

\* _TracebackLogger.activate, run by the loop one turn after set_exception:
\* an exception nobody retrieved is reported to the error sink.
TracebackLogger_activate(h, f) ==
    IF h.tb_logger[f] = "created"
    THEN [h EXCEPT !.tb_logger[f] = "logged", !.sink = Append(@, f)]
    ELSE h

\* ------------------------------------------------------------------------
\* Task

\* The values a computation returns when it returns without having received
\* one: straight away, and after swallowing a cancellation.
ReturnValue == "v42"
SwallowValue == "vS"

\* The Future that Tasks await and the environment settles.
Awaited == {"f1"}

\* The Futures the computation of Task t may yield: a Task is built from a
\* computation that awaits a Future or a Task constructed before it.
Awaitable(t) == IF t = "t1" THEN Awaited ELSE Awaited \cup {"t1"}

\* One resumption of the suspendable computation c, with a value or with an
\* exception thrown into it.  The computation yields at most one Future
\* (c.waits), returns what it receives from it, and when c.catches is set
\* catches a cancellation thrown at its yield and returns normally; an
\* exception thrown into a computation that has not started escapes it.
Coro_resume(c, value, exc) ==
    IF c.pc = "start"
    THEN IF exc # None
         THEN [c |-> [c EXCEPT !.pc = "done"], kind |-> "raise", val |-> exc]
         ELSE IF c.waits = None
         THEN [c |-> [c EXCEPT !.pc = "done"], kind |-> "return",
               val |-> ReturnValue]
         ELSE [c |-> [c EXCEPT !.pc = "waiting"], kind |-> "yield",
               val |-> c.waits]
    ELSE IF exc = None
         THEN [c |-> [c EXCEPT !.pc = "done"], kind |-> "return", val |-> value]
         ELSE IF exc = "CancelledError" /\ c.catches
         THEN [c |-> [c EXCEPT !.pc = "done"], kind |-> "return",
               val |-> SwallowValue]
         ELSE [c |-> [c EXCEPT !.pc = "done"], kind |-> "raise", val |-> exc]

\* What the computation received: next(), send(value) or throw(exc).
Received(c, value, exc) ==
    IF exc # None THEN [how |-> "throw", val |-> exc]
    ELSE IF c.pc = "start" THEN [how |-> "next", val |-> None]
    ELSE [how |-> "send", val |-> value]

\* Task._step(value, exc): one step of the Task's computation.
Task__step(h, t, value, exc) ==
    LET exc1 == IF h.must_cancel[t] THEN "CancelledError" ELSE exc
        out == Coro_resume(h.coro[t], value, exc1)
        h1 == [h EXCEPT !.must_cancel[t] = FALSE,
                        !.fut_waiter[t] = None,
                        !.coro[t] = out.c,
                        !.resumed[t] = Append(@, Received(h.coro[t], value, exc1))]
    IN  CASE out.kind = "return" -> Future_set_result(h1, t, out.val).h
          [] out.kind = "raise" /\ out.val = "CancelledError" ->
                 Future_cancel(h1, t).h
          [] out.kind = "raise" /\ out.val # "CancelledError" ->
                 Future_set_exception(h1, t, out.val).h
          [] out.kind = "yield" ->
                 Future_add_done_callback(
                     [h1 EXCEPT !.fut_waiter[t] = out.val],
                     out.val, WakeupCb(t)).h

\* Faulty variant: the constructor runs the first step itself.
Task___init___eager(h, t, waits, catches) ==
    LET h1 == [h EXCEPT !.state[t] = PENDING,
                        !.callbacks[t] = <<>>,
                        !.coro[t] = [waits |-> waits, catches |-> catches,
                                     pc |-> "start"],
                        !.fut_waiter[t] = None,
                        !.must_cancel[t] = FALSE]
        h2 == Task__step(h1, t, None, None)
    IN  [h2 EXCEPT !.all_tasks = @ \cup {t}]

\* Task.__init__(coro): the computation awaits `waits` (or nothing).
Task___init__(h, t, waits, catches) ==
    LET h1 == [h EXCEPT !.state[t] = PENDING,
                        !.callbacks[t] = <<>>,
                        !.coro[t] = [waits |-> waits, catches |-> catches,
                                     pc |-> "start"],
                        !.fut_waiter[t] = None,
                        !.must_cancel[t] = FALSE]
        h2 == BaseEventLoop_call_soon(h1, StepHandle(t))
    IN  [h2 EXCEPT !.all_tasks = @ \cup {t}]

RECURSIVE Task_cancel(_, _)

\* x.cancel(): Task overrides Future.cancel.
AnyCancel(h, x) == IF x \in Tasks THEN Task_cancel(h, x) ELSE Future_cancel(h, x)

\* The cancel() call on Task t that returned True, as cancel_log records it:
\* the waiter it found and whether the waiter's cancel() returned True.
Logged(h, t, waiter, accepted) ==
    [h EXCEPT !.cancel_log[t] =
         @ \cup {[waiter |-> waiter, accepted |-> accepted]}]

\* Faulty variant: a Task without waiter is cancelled on the spot.
Task_cancel_eager(h, t) ==
    IF Future_done(h, t) THEN Out(h, "False", None)
    ELSE IF h.fut_waiter[t] # None
    THEN LET r == AnyCancel(h, h.fut_waiter[t])
         IN  IF r.val = "True"
             THEN Out(Logged(r.h, t, h.fut_waiter[t], "True"), "True", None)
             ELSE Out([Logged(r.h, t, h.fut_waiter[t], "False")
                          EXCEPT !.must_cancel[t] = TRUE], "True", None)
    ELSE Out(Future_cancel(Logged(h, t, None, "False"), t).h, "True", None)

\* Faulty variant: a cancel the waiter refuses is answered True and forgotten.
Task_cancel_dropping(h, t) ==
    IF Future_done(h, t) THEN Out(h, "False", None)
    ELSE IF h.fut_waiter[t] # None
    THEN LET r == AnyCancel(h, h.fut_waiter[t])
         IN  Out(Logged(r.h, t, h.fut_waiter[t], r.val), "True", None)
    ELSE Out([Logged(h, t, None, "False") EXCEPT !.must_cancel[t] = TRUE],
             "True", None)

\* Faulty variant: the flag is armed also when the waiter accepts the cancel.
Task_cancel_arming(h, t) ==
    IF Future_done(h, t) THEN Out(h, "False", None)
    ELSE IF h.fut_waiter[t] # None
    THEN LET r == AnyCancel(h, h.fut_waiter[t])
         IN  Out([Logged(r.h, t, h.fut_waiter[t], r.val)
                     EXCEPT !.must_cancel[t] = TRUE], "True", None)
    ELSE Out([Logged(h, t, None, "False") EXCEPT !.must_cancel[t] = TRUE],
             "True", None)

Task_cancel(h, t) ==
    IF Future_done(h, t) THEN Out(h, "False", None)
    ELSE IF h.fut_waiter[t] # None
    THEN LET r == AnyCancel(h, h.fut_waiter[t])
         IN  IF r.val = "True"
             THEN Out(Logged(r.h, t, h.fut_waiter[t], "True"), "True", None)
             ELSE Out([Logged(r.h, t, h.fut_waiter[t], "False")
                          EXCEPT !.must_cancel[t] = TRUE], "True", None)
    ELSE Out([Logged(h, t, None, "False") EXCEPT !.must_cancel[t] = TRUE],
             "True", None)

\* Faulty variant: the Future's outcome is dropped; the step gets nothing.
Task__wakeup_dropping(h, t, f) ==
    LET r == Future_result(h, f)
    IN  Task__step(r.h, t, None, None)

Task__wakeup(h, t, f) ==
    LET r == Future_result(h, f)
    IN  IF r.exc # None THEN Task__step(r.h, t, None, r.exc)
        ELSE Task__step(r.h, t, r.val, None)

\* ------------------------------------------------------------------------
\* Event

\* The callbacks bound by the environment, named by what they do when they
\* are called: return a plain value, raise an Exception, return a generator,
\* or bind the callback "ok" to the Event that is calling them.
EvCbs == {"ok", "raises", "gen", "binds"}

\* The positional argument, the keyword arguments and the errback of a call.
EvArgs == {"x", "y"}
KwArgs == {None, "k=1"}
Errbacks == {None, "eb"}

\* The most callbacks the environment binds, and the most fires of one run.
MaxHandlers == 3
MaxFires == 2

\* The fields of the Event, and the error sink its callbacks report to.
TheEvent ==
    [handlers |-> handlers, fired |-> fired, silenced |-> silenced,
     calls |-> calls, asyncd |-> asyncd, sink |-> sink]

CommitEvent(e) ==
    /\ handlers' = e.handlers
    /\ fired' = e.fired
    /\ silenced' = e.silenced
    /\ calls' = e.calls
    /\ asyncd' = e.asyncd
    /\ sink' = e.sink

Event_bind(e, cb, errback) ==
    IF errback # None THEN Out(e, None, "ValueError")
    ELSE Out([e EXCEPT !.handlers = Append(@, cb)], None, None)

AbstractEvent_silence(e) == [e EXCEPT !.silenced = TRUE]

\* hnd(arg, **kwargs): the call is recorded and the callback does its work;
\* raised tells whether it raised.
Invoke(e, hnd, arg, kw) ==
    LET e1 == [e EXCEPT !.calls = Append(@, [cb |-> hnd, arg |-> arg, kw |-> kw])]
    IN  IF hnd = "binds"
        THEN [e |-> Event_bind(e1, "ok", None).h, raised |-> FALSE]
        ELSE [e |-> e1, raised |-> hnd = "raises"]

\* The body of the loop of Event.fire for the handler at index i.
FireOne(e, arg, kw, i) ==
    LET hnd == e.handlers[i]
        r == Invoke(e, hnd, arg, kw)
    IN  IF r.raised
        THEN [r.e EXCEPT !.sink = Append(@, "Exception while firing event")]
        ELSE IF hnd = "gen" THEN [r.e EXCEPT !.asyncd = Append(@, hnd)]
        ELSE r.e

\* for hnd in self._handlers, from index i on: the list is read as it is when
\* the loop reaches each index.
RECURSIVE FireFrom(_, _, _, _)
FireFrom(e, arg, kw, i) ==
    IF i > Len(e.handlers) THEN e
    ELSE FireFrom(FireOne(e, arg, kw, i), arg, kw, i + 1)

\* Faulty loop: an exception of a callback ends the loop and leaves fire.
RECURSIVE FireFromUncaught(_, _, _, _)
FireFromUncaught(e, arg, kw, i) ==
    IF i > Len(e.handlers) THEN Out(e, None, None)
    ELSE LET r == Invoke(e, e.handlers[i], arg, kw)
         IN  IF r.raised THEN Out(r.e, None, "Exception")
             ELSE FireFromUncaught(FireOne(e, arg, kw, i), arg, kw, i + 1)

\* Faulty variant: the exception of a callback is not caught.
Event_fire_uncaught(e, arg, kw) ==
    LET e0 == [e EXCEPT !.calls = <<>>, !.asyncd = <<>>]
    IN  IF e.silenced THEN Out(e0, None, None)
        ELSE FireFromUncaught([e0 EXCEPT !.fired = @ + 1], arg, kw, 1)

Event_fire(e, arg, kw) ==
    LET e0 == [e EXCEPT !.calls = <<>>, !.asyncd = <<>>]
    IN  IF e.silenced THEN Out(e0, None, None)
        ELSE Out(FireFrom([e0 EXCEPT !.fired = @ + 1], arg, kw, 1), None, None)

\* ------------------------------------------------------------------------
\* EventHandler, and the dispatchers it holds under their names

\* Two EventHandler objects, and an object that is not an EventHandler.
Handlers == {"h1", "h2"}
NotAHandler == "obj"

\* The event names of the calls.  "start" is a one-time event of both
\* handlers, "mix" a one-time event of h1 and a many-times event of h2, and
\* "late" is in no set: a handler knows it once bind_event has seen it.
Names == {"start", "mix", "late"}
NameOrder == <<"start", "mix", "late">>
OneTimeNames(h) == IF h = "h1" THEN {"start", "mix"} ELSE {"start"}
ManyTimesNames(h) == IF h = "h1" THEN {} ELSE {"mix"}

\* The callbacks bound by the environment: each returns what it is given.
HCbs == {"p", "q"}

\* The callback argument of bind_event: one callable, or a list of them.
OneCallback == [list |-> FALSE, cbs |-> <<"p">>]
CallbackArgs == {OneCallback, [list |-> TRUE, cbs |-> <<"p", "q">>]}

\* The positional argument of fire_event (None: left out).
FireArgs == {None, "v1", "v2"}

\* The most callbacks bound, invocations, fires of a repeatable Event and
\* reports to the error sink, taken together, in one run.
MaxBound == 3

\* Deferred.__init__: a pending Deferred without callbacks, chained to none.
NewDeferred ==
    [state |-> PENDING, result |-> None, callbacks |-> <<>>,
     chained_to |-> {}]

\* A dispatcher: its class and the fields of Event and of OneTime.  A
\* OneTime is a Deferred (self) and holds another one (_events).  A name
\* that is not in the dictionary has the dispatcher NoDispatcher.  quiet is
\* history: it turns false when the OneTime settles itself while _events is
\* unsettled or has callbacks left to call.
NoDispatcher ==
    [kind |-> None, silenced |-> FALSE, handlers |-> <<>>, fired |-> 0,
     events |-> NewDeferred, self |-> NewDeferred, quiet |-> TRUE]
NewEvent == [NoDispatcher EXCEPT !.kind = "Event"]
NewOneTime == [NoDispatcher EXCEPT !.kind = "OneTime"]

\* The dictionary EventHandler.__init__ builds: the one-time names first,
\* then updated with the many-times names.
EventHandler___init__(one, many) ==
    [n \in Names |-> IF n \in many THEN NewEvent
                     ELSE IF n \in one THEN NewOneTime
                     ELSE NoDispatcher]

\* The frame of a copy_many_times_events(other) call that is in its loops:
\* the handler, other, the index k of the name the outer loop is at and the
\* index i of the callback the inner loop is at.
CopyFrame(h, other, k, i) == [h |-> h, other |-> other, k |-> k, i |-> i]
NoCopy == CopyFrame(None, None, 0, 0)

\* The EventHandlers, the invocation log and the error sink.
World == [events |-> events, delivered |-> delivered, sink |-> sink]

CommitWorld(w) ==
    /\ events' = w.events
    /\ delivered' = w.delivered
    /\ sink' = w.sink
    /\ copying' = copying

\* A Deferred is referred to by its handler, its name and which of the two
\* Deferreds of the OneTime it is.
EventsOf(h, n) == <<h, n, "_events">>
SelfOf(h, n) == <<h, n, "self">>
Deref(w, ref) ==
    IF ref[3] = "_events" THEN w.events[ref[1]][ref[2]].events
    ELSE w.events[ref[1]][ref[2]].self
Store(w, ref, d) ==
    IF ref[3] = "_events" THEN [w EXCEPT !.events[ref[1]][ref[2]].events = d]
    ELSE [w EXCEPT !.events[ref[1]][ref[2]].self = d]

\* The entries of a Deferred's callbacks: a callback of the environment with
\* its errback, or the callback method of a chained Deferred.
BoundCb(cb, eb) == [kind |-> "cb", id |-> cb, eb |-> eb, ref |-> <<>>]
ChainCb(ref) == [kind |-> "chain", id |-> None, eb |-> None, ref |-> ref]

\* The entry add_callback(self._check, self._check) adds for the OneTime
\* under name n of handler h.
CheckCb(h, n) ==
    [kind |-> "check", id |-> None, eb |-> None, ref |-> SelfOf(h, n)]

\* A callback of the environment that, when a dispatcher calls it, binds
\* the callback "p" to that dispatcher.
Rebinder == "r"
RebindCallback == [list |-> FALSE, cbs |-> <<Rebinder>>]

\* The payload of a fire that is itself a Deferred.
DeferredArg == "deferred"
IsDeferred(v) == v = DeferredArg

\* One invocation of a callback by the dispatcher of handler h under name n.
Delivery(h, n, cb, arg, kw) ==
    [h |-> h, n |-> n, cb |-> cb, arg |-> arg, kw |-> kw]

\* Deferred: settled once with callback(result); its callbacks are called in
\* order with the stored result, those added after it settled at once.  A
\* chained Deferred that is settled already is reported, not raised.
RECURSIVE Deferred__run_callbacks(_, _)
RECURSIVE Deferred_callback(_, _, _)

\* An exception a callback of a Deferred raised is reported, not raised.
Reported(r) ==
    IF r.exc = None THEN r.h ELSE [r.h EXCEPT !.sink = Append(@, r.exc)]

\* callback() returns the stored result.
Returned(w, ref) == Out(w, Deref(w, ref).result, None)

Deferred_done(d) == d.state # PENDING

Deferred_has_callbacks(d) == d.callbacks # <<>>

\* The OneTime under name n of handler h is about to settle itself: quiet
\* records whether _events is settled with no callback left.
Quiescent(w, h, n) ==
    LET d == Deref(w, EventsOf(h, n))
    IN  [w EXCEPT !.events[h][n].quiet =
            @ /\ Deferred_done(d) /\ ~ Deferred_has_callbacks(d)]

\* self.callback(result) of the OneTime.
OneTime_callback(w, h, n, res) ==
    Deferred_callback(Quiescent(w, h, n), SelfOf(h, n), res)

Deferred_add_callback(w, ref, c) ==
    LET d == Deref(w, ref)
    IN  Deferred__run_callbacks(
            Store(w, ref, [d EXCEPT !.callbacks = Append(@, c)]), ref)

\* OneTime._check(result), which _events calls as one of its callbacks.
OneTime__check(w, h, n, res) ==
    IF Deferred_has_callbacks(Deref(w, EventsOf(h, n)))
    THEN Out(Deferred_add_callback(w, EventsOf(h, n), CheckCb(h, n)),
             None, None)
    ELSE IF w.events[h][n].self.chained_to = {}
    THEN OneTime_callback(w, h, n, res)
    ELSE Out(w, None, None)

Deferred__run_callbacks(w, ref) ==
    LET d == Deref(w, ref)
    IN  IF d.state = PENDING \/ d.callbacks = <<>> THEN w
        ELSE LET c == Head(d.callbacks)
                 w1 == Store(w, ref, [d EXCEPT !.callbacks = Tail(@)])
                 w2 == IF c.kind = "cb"
                       THEN LET wd == [w1 EXCEPT !.delivered =
                                          Append(@, Delivery(ref[1], ref[2],
                                                     c.id, d.result, None))]
                                dd == Deref(wd, ref)
                            IN  IF c.id = Rebinder
                                THEN Store(wd, ref,
                                         [dd EXCEPT !.callbacks =
                                              Append(@, BoundCb("p", None))])
                                ELSE wd
                       ELSE IF c.kind = "check"
                       THEN Reported(OneTime__check(w1, c.ref[1], c.ref[2],
                                                    d.result))
                       ELSE Reported(Deferred_callback(w1, c.ref, d.result))
             IN  Deferred__run_callbacks(w2, ref)

Deferred_callback(w, ref, value) ==
    LET d == Deref(w, ref)
    IN  IF d.state # PENDING THEN Out(w, None, "InvalidStateError")
        ELSE LET w1 == Store(w, ref, [d EXCEPT !.state = FINISHED,
                                                !.result = value])
             IN  Returned(Deferred__run_callbacks(w1, ref), ref)

\* chain(other): other settles when this Deferred does, unless other is
\* chained already.
Deferred_chain(w, ref, other) ==
    LET o == Deref(w, other)
    IN  IF o.chained_to # {} THEN w
        ELSE Deferred_add_callback(
                 Store(w, other, [o EXCEPT !.chained_to = {ref}]),
                 ref, ChainCb(other))

\* ------------------------------------------------------------------------
\* OneTime

\* Faulty variant: the callback is queued and is not called, even when the
\* OneTime has fired.
OneTime_bind_queued(w, h, n, cb, errback) ==
    LET d == Deref(w, EventsOf(h, n))
    IN  Out(Store(w, EventsOf(h, n),
                  [d EXCEPT !.callbacks = Append(@, BoundCb(cb, errback))]),
            None, None)

OneTime_bind(w, h, n, cb, errback) ==
    Out(Deferred_add_callback(w, EventsOf(h, n), BoundCb(cb, errback)),
        None, None)

OneTime_fired(d) == IF Deferred_done(d.events) THEN 1 ELSE 0

\* Faulty variant: a silenced OneTime fires like any other.
OneTime_fire_silenced(w, h, n, arg, kw) ==
    IF kw # None THEN Out(w, None, "ValueError")
    ELSE LET r == Deferred_callback(w, EventsOf(h, n), arg)
         IN  IF r.exc # None THEN r
             ELSE IF r.h.events[h][n].self.chained_to = {}
             THEN Deferred_callback(r.h, SelfOf(h, n), r.val)
             ELSE Out(r.h, None, None)

\* Faulty variant: the OneTime settles itself first and _events after it.
OneTime_fire_early(w, h, n, arg, kw) ==
    IF w.events[h][n].silenced THEN Out(w, None, None)
    ELSE IF kw # None THEN Out(w, None, "ValueError")
    ELSE IF Deferred_done(Deref(w, EventsOf(h, n)))
    THEN Out(w, None, "InvalidStateError")
    ELSE LET s == IF w.events[h][n].self.chained_to = {}
                  THEN OneTime_callback(w, h, n, arg)
                  ELSE Out(w, None, None)
         IN  Deferred_callback(s.h, EventsOf(h, n), arg)

\* _events.callback(arg) returns the stored result, which the callbacks of
\* the environment leave as it is: it is a Deferred when the payload is one.
OneTime_fire(w, h, n, arg, kw) ==
    IF w.events[h][n].silenced THEN Out(w, None, None)
    ELSE IF kw # None THEN Out(w, None, "ValueError")
    ELSE LET r == Deferred_callback(w, EventsOf(h, n), arg)
         IN  IF r.exc # None THEN r
             ELSE IF IsDeferred(r.val)
             THEN Out(Deferred_add_callback(r.h, EventsOf(h, n),
                                            CheckCb(h, n)), None, None)
             ELSE IF r.h.events[h][n].self.chained_to = {}
             THEN OneTime_callback(r.h, h, n, r.val)
             ELSE Out(r.h, None, None)

\* ------------------------------------------------------------------------
\* The methods of the dispatcher under name n of handler h, by its class.

\* event.bind(callback, errback)
Dispatcher_bind(w, h, n, cb, errback) ==
    LET d == w.events[h][n]
    IN  IF d.kind = "Event"
        THEN LET r == Event_bind(d, cb, errback)
             IN  Out([w EXCEPT !.events[h][n] = r.h], None, r.exc)
        ELSE OneTime_bind(w, h, n, cb, errback)

\* event.fire(arg, **kwargs); the invocations of an Event are logged with
\* those of the other dispatchers.
Dispatcher_fire(w, h, n, arg, kw) ==
    LET d == w.events[h][n]
    IN  IF d.kind = "Event"
        THEN LET e == [handlers |-> d.handlers, fired |-> d.fired,
                       silenced |-> d.silenced, calls |-> <<>>,
                       asyncd |-> <<>>, sink |-> w.sink]
                 r == Event_fire(e, arg, kw)
                 log == [i \in 1..Len(r.h.calls) |->
                            Delivery(h, n, r.h.calls[i].cb, r.h.calls[i].arg,
                                     r.h.calls[i].kw)]
             IN  Out([w EXCEPT !.events[h][n].handlers = r.h.handlers,
                               !.events[h][n].fired = r.h.fired,
                               !.delivered = @ \o log,
                               !.sink = r.h.sink], r.val, r.exc)
        ELSE OneTime_fire(w, h, n, arg, kw)

\* event.silence()
Dispatcher_silence(w, h, n) ==
    [w EXCEPT !.events[h][n] = AbstractEvent_silence(@)]

\* ------------------------------------------------------------------------
\* EventHandler

\* for cbk in callback: event.bind(cbk), from index i on.
RECURSIVE BindAll(_, _, _, _, _)
BindAll(w, h, n, cbs, i) ==
    IF i > Len(cbs) THEN Out(w, None, None)
    ELSE LET r == Dispatcher_bind(w, h, n, cbs[i], None)
         IN  IF r.exc # None THEN r ELSE BindAll(r.h, h, n, cbs, i + 1)

\* Faulty variant: every bind_event stores a new Event under the name.
EventHandler_bind_event_replacing(w, h, name, callback, errback) ==
    LET w1 == [w EXCEPT !.events[h][name] = NewEvent]
    IN  IF callback.list
        THEN IF errback # None THEN Out(w1, None, "AssertionError")
             ELSE BindAll(w1, h, name, callback.cbs, 1)
        ELSE Dispatcher_bind(w1, h, name, callback.cbs[1], errback)

\* Faulty variant: the errback that comes with a list is not looked at.
EventHandler_bind_event_unasserted(w, h, name, callback, errback) ==
    LET w1 == IF w.events[h][name].kind = None
              THEN [w EXCEPT !.events[h][name] = NewEvent]
              ELSE w
    IN  IF callback.list
        THEN BindAll(w1, h, name, callback.cbs, 1)
        ELSE Dispatcher_bind(w1, h, name, callback.cbs[1], errback)

EventHandler_bind_event(w, h, name, callback, errback) ==
    LET w1 == IF w.events[h][name].kind = None
              THEN [w EXCEPT !.events[h][name] = NewEvent]
              ELSE w
    IN  IF callback.list
        THEN IF errback # None THEN Out(w1, None, "AssertionError")
             ELSE BindAll(w1, h, name, callback.cbs, 1)
        ELSE Dispatcher_bind(w1, h, name, callback.cbs[1], errback)

\* Faulty variant: an unknown name gets an Event, as in bind_event.
EventHandler_fire_event_creating(w, h, name, arg, kw) ==
    LET a == IF arg = None THEN h ELSE arg
        w1 == IF w.events[h][name].kind = None
              THEN [w EXCEPT !.events[h][name] = NewEvent]
              ELSE w
        r == Dispatcher_fire(w1, h, name, a, kw)
    IN  IF r.exc = "InvalidStateError"
        THEN Out([r.h EXCEPT !.sink = Append(@, "already fired")], None, None)
        ELSE r

\* Faulty variant: the InvalidStateError of a second fire is not caught.
EventHandler_fire_event_uncaught(w, h, name, arg, kw) ==
    LET a == IF arg = None THEN h ELSE arg
    IN  IF w.events[h][name].kind # None
        THEN Dispatcher_fire(w, h, name, a, kw)
        ELSE Out([w EXCEPT !.sink = Append(@, "Unknown event")], None, None)

EventHandler_fire_event(w, h, name, arg, kw) ==
    LET a == IF arg = None THEN h ELSE arg
    IN  IF w.events[h][name].kind # None
        THEN LET r == Dispatcher_fire(w, h, name, a, kw)
             IN  IF r.exc = "InvalidStateError"
                 THEN Out([r.h EXCEPT !.sink = Append(@, "already fired")],
                          None, None)
                 ELSE r
        ELSE Out([w EXCEPT !.sink = Append(@, "Unknown event")], None, None)

EventHandler_silence_event(w, h, name) ==
    IF w.events[h][name].kind # None
    THEN Out(Dispatcher_silence(w, h, name), None, None)
    ELSE Out(w, None, None)

\* event.chain is the method of Deferred: an Event has none.
EventHandler_chain_event(w, h, other, name) ==
    IF w.events[h][name].kind # None /\ other \in Handlers
    THEN IF w.events[other][name].kind # None
         THEN IF w.events[h][name].kind = "Event"
              THEN Out(w, None, "AttributeError")
              ELSE Out(Deferred_chain(w, SelfOf(h, name),
                                      SelfOf(other, name)), None, None)
         ELSE Out(w, None, None)
    ELSE Out(w, None, None)

\* for callback in event._handlers: ev.bind(callback), from index i on.
RECURSIVE CopyHandlers(_, _, _, _, _)
CopyHandlers(w, h, other, name, i) ==
    IF i > Len(w.events[other][name].handlers) THEN Out(w, None, None)
    ELSE LET r == Dispatcher_bind(w, h, name,
                                  w.events[other][name].handlers[i], None)
         IN  IF r.exc # None THEN r
             ELSE CopyHandlers(r.h, h, other, name, i + 1)

\* for name, event in iteritems(other._events), from index k of NameOrder on.
RECURSIVE CopyEvents(_, _, _, _)
CopyEvents(w, h, other, k) ==
    IF k > Len(NameOrder) THEN Out(w, None, None)
    ELSE LET name == NameOrder[k]
         IN  IF /\ w.events[other][name].kind = "Event"
                /\ w.events[h][name].kind # None
             THEN LET r == CopyHandlers(w, h, other, name, 1)
                  IN  IF r.exc # None THEN r
                      ELSE CopyEvents(r.h, h, other, k + 1)
             ELSE CopyEvents(w, h, other, k + 1)

EventHandler_copy_many_times_events(w, h, other) ==
    IF other \in Handlers THEN CopyEvents(w, h, other, 1)
    ELSE Out(w, None, None)

\* ------------------------------------------------------------------------
\* The calls of the environment and the turns of the loop.

RECURSIVE SumLen(_, _)
SumLen(cbs, S) ==
    IF S = {} THEN 0
    ELSE LET x == CHOOSE y \in S : TRUE
         IN  Len(cbs[x]) + SumLen(cbs, S \ {x})

\* The callbacks registered and the handles scheduled so far.
Work == Len(enqueued) + SumLen(callbacks, AllFuts)

\* The Futures and Tasks that have been constructed.
Born == Futures \cup all_tasks

Cancel(f) ==
    LET r == AnyCancel(Heap, f)
    IN  /\ Commit(r.h)
        /\ ret' = Call("cancel", f, None, r, 0)
        /\ UNCHANGED <<eventVars, handlerVars>>

SetResult(f, v) ==
    LET r == Future_set_result(Heap, f, v)
    IN  /\ Commit(r.h)
        /\ ret' = Call("set_result", f, v, r, 0)
        /\ UNCHANGED <<eventVars, handlerVars>>

SetException(f, e) ==
    LET r == Future_set_exception(Heap, f, e)
    IN  /\ Commit(r.h)
        /\ ret' = Call("set_exception", f, e, r, 0)
        /\ UNCHANGED <<eventVars, handlerVars>>

Result(f) ==
    LET r == Future_result(Heap, f)
    IN  /\ Commit(r.h)
        /\ ret' = Call("result", f, None, r, 0)
        /\ UNCHANGED <<eventVars, handlerVars>>

Exception(f) ==
    LET r == Future_exception(Heap, f)
    IN  /\ Commit(r.h)
        /\ ret' = Call("exception", f, None, r, 0)
        /\ UNCHANGED <<eventVars, handlerVars>>

AddDoneCallback(f, c) ==
    /\ Work < MaxWork
    /\ LET r == Future_add_done_callback(Heap, f, EnvCb(c))
       IN  /\ Commit(r.h)
           /\ ret' = Call("add_done_callback", f, c, r, 0)
    /\ UNCHANGED <<eventVars, handlerVars>>

RemoveDoneCallback(f, c) ==
    LET r == Future_remove_done_callback(Heap, f, EnvCb(c))
    IN  /\ Commit(r.h)
        /\ ret' = Call("remove_done_callback", f, c, Out(r.h, None, None), r.n)
        /\ UNCHANGED <<eventVars, handlerVars>>

TaskInit(t, waits, catches) ==
    /\ t \notin all_tasks
    /\ waits \in Born \cup {None}
    /\ Commit(Task___init__(Heap, t, waits, catches))
    /\ ret' = Call("Task", t, waits, Out(Heap, None, None), 0)
    /\ UNCHANGED <<eventVars, handlerVars>>

\* One turn of the loop: the handle at the head of the ready queue is taken
\* off the queue and its callback is called.
RunOnce ==
    /\ ready # <<>>
    /\ LET hd == Head(ready)
           h1 == [Heap EXCEPT !.ready = Tail(@), !.ran = Append(@, hd)]
           h2 == CASE hd.kind = "cb" -> h1
                   [] hd.kind = "activate" -> TracebackLogger_activate(h1, hd.id)
                   [] hd.kind = "step" -> Task__step(h1, hd.id, None, None)
                   [] hd.kind = "wakeup" -> Task__wakeup(h1, hd.id, hd.arg)
       IN  /\ Commit(h2)
           /\ ret' = Call("_run_once", hd.id, hd.arg, Out(h2, None, None), 0)
    /\ UNCHANGED <<eventVars, handlerVars>>

NoCall == [op |-> None, fut |-> None, arg |-> None, val |-> None,
           exc |-> None, n |-> 0]

\* Every Future as Future.__init__ leaves it; no Task constructed yet.
InitFutures ==
    /\ state = [f \in AllFuts |-> PENDING]
    /\ result = [f \in AllFuts |-> None]
    /\ exception = [f \in AllFuts |-> None]
    /\ callbacks = [f \in AllFuts |-> <<>>]
    /\ tb_logger = [f \in AllFuts |-> None]
    /\ ready = <<>>
    /\ ran = <<>>
    /\ enqueued = <<>>
    /\ regs = [f \in AllFuts |-> <<>>]
    /\ sink = <<>>
    /\ ret = NoCall
    /\ fut_waiter = [t \in Tasks |-> None]
    /\ must_cancel = [t \in Tasks |-> FALSE]
    /\ coro = [t \in Tasks |-> [waits |-> None, catches |-> FALSE,
                                pc |-> "unborn"]]
    /\ resumed = [t \in Tasks |-> <<>>]
    /\ all_tasks = {}
    /\ cancel_log = [t \in Tasks |-> {}]

\* An Event as Event.__init__ leaves it.
InitEvent ==
    /\ handlers = <<>>
    /\ fired = 0
    /\ silenced = FALSE
    /\ calls = <<>>
    /\ asyncd = <<>>

\* The EventHandlers as EventHandler.__init__ leaves them.
InitHandlers ==
    /\ events = [h \in Handlers |->
                    EventHandler___init__(OneTimeNames(h), ManyTimesNames(h))]
    /\ delivered = <<>>
    /\ copying = NoCopy

Init == InitFutures /\ InitEvent /\ InitHandlers

\* Futures, their callbacks and the loop.
Next ==
    \/ \E f \in Futures : Cancel(f)
    \/ \E f \in Futures, v \in Vals : SetResult(f, v)
    \/ \E f \in Futures, e \in Errs : SetException(f, e)
    \/ \E f \in Futures : Result(f)
    \/ \E f \in Futures : Exception(f)
    \/ \E f \in Futures, c \in CbIds : AddDoneCallback(f, c)
    \/ \E f \in Futures, c \in CbIds : RemoveDoneCallback(f, c)
    \/ RunOnce

Spec == Init /\ [][Next]_vars

\* Tasks awaiting Futures and Tasks, cancelled and settled by the environment.
TaskNext ==
    \/ \E t \in Tasks : \E w \in Awaitable(t) \cup {None}, c \in BOOLEAN :
           TaskInit(t, w, c)
    \/ \E f \in Awaited \cup all_tasks : Cancel(f)
    \/ \E f \in Awaited, v \in Vals : SetResult(f, v)
    \/ \E f \in Awaited, e \in Errs : SetException(f, e)
    \/ RunOnce

TaskSpec == Init /\ [][TaskNext]_vars

\* ------------------------------------------------------------------------
\* The calls on an Event.

Bind(cb, errback) ==
    /\ Len(handlers) < MaxHandlers
    /\ LET r == Event_bind(TheEvent, cb, errback)
       IN  /\ CommitEvent(r.h)
           /\ ret' = Call("bind", "event", cb, r, 0)
    /\ UNCHANGED <<futVars, taskVars, handlerVars>>

Fire(arg, kw) ==
    /\ fired < MaxFires
    /\ LET r == Event_fire(TheEvent, arg, kw)
       IN  /\ CommitEvent(r.h)
           /\ ret' = Call("fire", "event", arg, r, 0)
    /\ UNCHANGED <<futVars, taskVars, handlerVars>>

Silence ==
    /\ CommitEvent(AbstractEvent_silence(TheEvent))
    /\ ret' = Call("silence", "event", None, Out(TheEvent, None, None), 0)
    /\ UNCHANGED <<futVars, taskVars, handlerVars>>

EventNext ==
    \/ \E cb \in EvCbs, eb \in Errbacks : Bind(cb, eb)
    \/ \E arg \in EvArgs, kw \in KwArgs : Fire(arg, kw)
    \/ Silence

EventSpec == Init /\ [][EventNext]_vars

\* ------------------------------------------------------------------------
\* The calls on the EventHandlers and on the dispatchers they hold.

RECURSIVE SumSeq(_)
SumSeq(s) == IF s = <<>> THEN 0 ELSE Head(s) + SumSeq(Tail(s))

\* The callbacks bound and not yet called and the fires of a dispatcher.
Load(d) == Len(d.handlers) + Len(d.events.callbacks) + d.fired

\* What the runs bound: the callbacks bound, the invocations, the fires of
\* the repeatable Events and the reports.
HandlerWork ==
    Len(delivered) + Len(sink)
    + SumSeq([k \in 1..Len(NameOrder) |->
                 Load(events["h1"][NameOrder[k]])
                 + Load(events["h2"][NameOrder[k]])])

BindEvent(h, name, callback, errback) ==
    /\ HandlerWork < MaxBound
    /\ LET r == EventHandler_bind_event(World, h, name, callback, errback)
       IN  /\ CommitWorld(r.h)
           /\ ret' = Call("bind_event", <<h, name>>, <<callback, errback>>,
                          r, 0)
    /\ UNCHANGED <<futVars, taskVars, eventVars>>

FireEvent(h, name, arg, kw) ==
    /\ HandlerWork < MaxBound
    /\ LET r == EventHandler_fire_event(World, h, name, arg, kw)
       IN  /\ CommitWorld(r.h)
           /\ ret' = Call("fire_event", <<h, name>>, <<arg, kw>>, r, 0)
    /\ UNCHANGED <<futVars, taskVars, eventVars>>

\* self.event(name).fire(arg, **kwargs) on a known name.
EventFire(h, name, arg, kw) ==
    /\ events[h][name].kind # None
    /\ HandlerWork < MaxBound
    /\ LET r == Dispatcher_fire(World, h, name, arg, kw)
       IN  /\ CommitWorld(r.h)
           /\ ret' = Call("fire", <<h, name>>, <<arg, kw>>, r, 0)
    /\ UNCHANGED <<futVars, taskVars, eventVars>>

SilenceEvent(h, name) ==
    LET r == EventHandler_silence_event(World, h, name)
    IN  /\ CommitWorld(r.h)
        /\ ret' = Call("silence_event", <<h, name>>, <<>>, r, 0)
        /\ UNCHANGED <<futVars, taskVars, eventVars>>

\* What Deferred.chain does with a repeatable Event is not in the sources:
\* a OneTime is chained to a OneTime only.
ChainEvent(h, other, name) ==
    /\ ~ (/\ other \in Handlers
          /\ events[h][name].kind = "OneTime"
          /\ events[other][name].kind = "Event")
    /\ HandlerWork < MaxBound
    /\ LET r == EventHandler_chain_event(World, h, other, name)
       IN  /\ CommitWorld(r.h)
           /\ ret' = Call("chain_event", <<h, name>>, <<other>>, r, 0)
    /\ UNCHANGED <<futVars, taskVars, eventVars>>

CopyManyTimesEvents(h, other) ==
    /\ other # h
    /\ HandlerWork < MaxBound
    /\ LET r == EventHandler_copy_many_times_events(World, h, other)
       IN  /\ CommitWorld(r.h)
           /\ ret' = Call("copy_many_times_events", <<h, None>>, <<other>>,
                          r, 0)
    /\ UNCHANGED <<futVars, taskVars, eventVars>>

\* copy_many_times_events(other) step by step.

\* The most callbacks, invocations and reports while a copy is in its loops.
MaxCopied == 5

\* The call: isinstance(other, EventHandler) and the entry of the outer loop.
CopyBegin(h, other) ==
    /\ copying = NoCopy
    /\ IF other \in Handlers
       THEN /\ copying' = CopyFrame(h, other, 1, 1)
            /\ ret' = NoCall
       ELSE /\ copying' = NoCopy
            /\ ret' = Call("copy_many_times_events", <<h, None>>, <<other>>,
                           Out(World, None, None), 0)
    /\ UNCHANGED <<futVars, taskVars, eventVars, events, delivered, sink>>

\* One turn of the loops: the inner loop binds the callback at index i of
\* the list of other's Event as it is now, or is over when i is beyond
\* that list; the outer loop goes to the next name or is over, and the call
\* returns.
CopyStep ==
    /\ copying # NoCopy
    /\ LET h == copying.h
           other == copying.other
           k == copying.k
           i == copying.i
       IN  IF k > Len(NameOrder)
           THEN /\ copying' = NoCopy
                /\ ret' = Call("copy_many_times_events", <<h, None>>,
                               <<other>>, Out(World, None, None), 0)
                /\ UNCHANGED <<events, delivered, sink>>
           ELSE IF /\ events[other][NameOrder[k]].kind = "Event"
                   /\ events[h][NameOrder[k]].kind # None
                   /\ i <= Len(events[other][NameOrder[k]].handlers)
           THEN /\ HandlerWork < MaxCopied
                /\ LET r == Dispatcher_bind(World, h, NameOrder[k],
                              events[other][NameOrder[k]].handlers[i], None)
                   IN  /\ events' = r.h.events
                       /\ delivered' = r.h.delivered
                       /\ sink' = r.h.sink
                /\ copying' = [copying EXCEPT !.i = i + 1]
                /\ ret' = ret
           ELSE /\ copying' = [copying EXCEPT !.k = k + 1, !.i = 1]
                /\ UNCHANGED <<events, delivered, sink, ret>>
    /\ UNCHANGED <<futVars, taskVars, eventVars>>

\* One EventHandler: binding to, firing and silencing its dispatchers under
\* a one-time name and under a name it does not know at first.
HandlerNames == {"start", "late"}

HandlerNext ==
    \/ \E n \in HandlerNames, c \in CallbackArgs, eb \in Errbacks :
           BindEvent("h1", n, c, eb)
    \/ \E n \in HandlerNames, a \in FireArgs, kw \in KwArgs :
           FireEvent("h1", n, a, kw)
    \/ \E n \in HandlerNames, a \in FireArgs \ {None}, kw \in KwArgs :
           EventFire("h1", n, a, kw)
    \/ \E n \in HandlerNames : SilenceEvent("h1", n)

HandlerSpec == Init /\ [][HandlerNext]_vars

\* The one-time dispatchers of one EventHandler: callbacks that bind during
\* the fire pass, and payloads that are Deferreds.
OneTimeNamesFired == {"start", "mix"}
OneTimeCallbacks == {OneCallback, RebindCallback}
OneTimeArgs == {None, "v1", DeferredArg}

OneTimeNext ==
    \/ \E n \in OneTimeNamesFired, c \in OneTimeCallbacks :
           BindEvent("h1", n, c, None)
    \/ \E n \in OneTimeNamesFired, a \in OneTimeArgs :
           FireEvent("h1", n, a, None)
    \/ \E n \in OneTimeNamesFired, a \in OneTimeArgs \ {None} :
           EventFire("h1", n, a, None)

OneTimeSpec == Init /\ [][OneTimeNext]_vars

\* Two EventHandlers, and the calls that take one to the other.  Callbacks
\* are bound under the names that are a repeatable Event in some handler;
\* fires and silences are those of h1.
PairBindNames == {"mix", "late"}

PairNext ==
    \/ \E h \in Handlers, n \in PairBindNames :
           BindEvent(h, n, OneCallback, None)
    \/ \E n \in Names : FireEvent("h1", n, "v1", None)
    \/ \E n \in Names : SilenceEvent("h1", n)
    \/ \E h \in Handlers :
           \E o \in (Handlers \ {h}) \cup {NotAHandler}, n \in Names :
               ChainEvent(h, o, n)
    \/ \E h \in Handlers, o \in Handlers \cup {NotAHandler} :
           CopyManyTimesEvents(h, o)

PairSpec == Init /\ [][PairNext]_vars

\* Two EventHandlers and the copies between them and of a handler into
\* itself, the loops of the copy turn by turn; no other call runs while a
\* copy is in its loops.
CopyNext ==
    \/ /\ copying = NoCopy
       /\ \E h \in Handlers, n \in PairBindNames :
              BindEvent(h, n, OneCallback, None)
    \/ \E h \in Handlers, o \in Handlers \cup {NotAHandler} : CopyBegin(h, o)
    \/ CopyStep

CopySpec == Init /\ [][CopyNext]_vars

\* ------------------------------------------------------------------------
\* Properties of Future (under Spec)

\* The handles that scheduling the callbacks cbs of Future f enqueues.
Scheduled(cbs, f) == [i \in 1..Len(cbs) |-> Handle(cbs[i], f)]

\* The done callbacks of Future f among the handles hs, in order.
CallbacksOf(hs, f) ==
    LET isCb(hd) == hd.kind \in {"cb", "wakeup"} /\ hd.arg = f
        sel == SelectSeq(hs, isCb)
    IN  [i \in 1..Len(sel) |-> [kind |-> sel[i].kind, id |-> sel[i].id]]

SettleOps == {"cancel", "set_result", "set_exception"}

\* C1: once a Future is FINISHED or CANCELLED, no call changes its state,
\* its stored result or its stored exception: it leaves PENDING at most once.
C1_SettledForGood ==
    [][\A f \in Futures :
           state[f] # PENDING =>
               /\ state'[f] = state[f]
               /\ result'[f] = result[f]
               /\ exception'[f] = exception[f]]_vars

\* C1: a cancelled Future on which set_exception was then attempted.
C1_Witness ==
    /\ ret.op = "set_exception"
    /\ ret.exc = "InvalidStateError"
    /\ state[ret.fut] = CANCELLED
    /\ exception[ret.fut] = None

\* C2: set_result and set_exception succeed exactly on a PENDING Future,
\* which becomes FINISHED with the given outcome and has its callbacks
\* scheduled (and, for an exception, the audit of the traceback logger);
\* on a settled Future they raise InvalidStateError and change neither the
\* state, the result, the exception, the callbacks nor the ready queue.
C2_SetOnlyWhenPending ==
    [][\A f \in Futures :
           (ret'.op \in {"set_result", "set_exception"} /\ ret'.fut = f) =>
               IF state[f] = PENDING
               THEN /\ ret'.exc = None
                    /\ state'[f] = FINISHED
                    /\ callbacks'[f] = <<>>
                    /\ IF ret'.op = "set_result"
                       THEN /\ result'[f] = ret'.arg
                            /\ exception'[f] = None
                            /\ ready' = ready \o Scheduled(callbacks[f], f)
                       ELSE /\ exception'[f] = ret'.arg
                            /\ result'[f] = None
                            /\ ready' = (ready \o Scheduled(callbacks[f], f))
                                            \o <<ActivateHandle(f)>>
               ELSE /\ ret'.exc = "InvalidStateError"
                    /\ state' = state
                    /\ result' = result
                    /\ exception' = exception
                    /\ callbacks' = callbacks
                    /\ ready' = ready]_vars

\* C2: set_result(v7) then set_result(v8): the second call has failed and
\* the result is still v7.
C2_Witness ==
    /\ ret.op = "set_result"
    /\ ret.arg = "v8"
    /\ ret.exc = "InvalidStateError"
    /\ state[ret.fut] = FINISHED
    /\ result[ret.fut] = "v7"

\* C3: cancel() returns True exactly when the Future is PENDING, and then
\* makes it CANCELLED and schedules all its pending callbacks; on a settled
\* Future it returns False, schedules nothing and changes nothing.
C3_CancelOnlyWhenPending ==
    [][\A f \in Futures :
           (ret'.op = "cancel" /\ ret'.fut = f) =>
               /\ ret'.exc = None
               /\ ret'.val = "True" <=> state[f] = PENDING
               /\ result' = result
               /\ exception' = exception
               /\ IF state[f] = PENDING
                  THEN /\ state'[f] = CANCELLED
                       /\ callbacks'[f] = <<>>
                       /\ ready' = ready \o Scheduled(callbacks[f], f)
                  ELSE /\ ret'.val = "False"
                       /\ state' = state
                       /\ callbacks' = callbacks
                       /\ ready' = ready]_vars

\* C3: cancel() has returned True on a Future with two pending callbacks,
\* which are now both scheduled.
C3_Witness ==
    /\ ret.op = "cancel"
    /\ ret.val = "True"
    /\ state[ret.fut] = CANCELLED
    /\ Len(CallbacksOf(ready, ret.fut)) = 2
    /\ callbacks[ret.fut] = <<>>

\* C4: result() raises InvalidStateError on a PENDING Future and
\* CancelledError on a CANCELLED one, raises the stored exception of a
\* Future FINISHED with one and returns the stored result otherwise;
\* exception() fails the same way on PENDING and CANCELLED and returns the
\* stored exception of a FINISHED Future.  Neither changes the state, the
\* result or the exception.
C4_ResultByState ==
    [][\A f \in Futures :
           (ret'.op \in {"result", "exception"} /\ ret'.fut = f) =>
               /\ state' = state
               /\ result' = result
               /\ exception' = exception
               /\ state[f] = PENDING => ret'.exc = "InvalidStateError"
               /\ state[f] = CANCELLED => ret'.exc = "CancelledError"
               /\ (state[f] = FINISHED /\ ret'.op = "result") =>
                      IF exception[f] # None
                      THEN ret'.exc = exception[f]
                      ELSE ret'.exc = None /\ ret'.val = result[f]
               /\ (state[f] = FINISHED /\ ret'.op = "exception") =>
                      ret'.exc = None /\ ret'.val = exception[f]]_vars

\* C4: result() has raised the stored exception of a FINISHED Future.
C4_Witness ==
    /\ ret.op = "result"
    /\ ret.exc = "boom"
    /\ state[ret.fut] = FINISHED
    /\ exception[ret.fut] = "boom"

\* C5: cancel, set_result, set_exception and add_done_callback call no
\* callback: they only append handles to the ready queue, each callback
\* with its Future as argument (add_done_callback on a settled Future
\* enqueues its callback, on a pending one it only appends it to the
\* pending list); a callback is called only by a turn of the loop, which
\* takes the handle at the head of the queue.
C5_NeverInline ==
    [][/\ \A f \in Futures :
              (ret'.op \in SettleOps \cup {"add_done_callback"} /\ ret'.fut = f) =>
                  /\ ran' = ran
                  /\ ret'.op \in SettleOps =>
                         CallbacksOf(ready', f) =
                             CallbacksOf(ready, f) \o
                                 (IF state[f] = PENDING THEN callbacks[f]
                                  ELSE <<>>)
                  /\ ret'.op = "add_done_callback" =>
                         IF state[f] # PENDING
                         THEN ready' = Append(ready, Handle(EnvCb(ret'.arg), f))
                         ELSE /\ ready' = ready
                              /\ callbacks'[f] = Append(callbacks[f], EnvCb(ret'.arg))
       /\ ran' # ran =>
              /\ ret'.op = "_run_once"
              /\ ready # <<>>
              /\ ran' = Append(ran, Head(ready))
              /\ ready' = Tail(ready)]_vars

\* C5: add_done_callback on a settled Future has enqueued the callback,
\* which has not been called.
C5_Witness ==
    /\ ret.op = "add_done_callback"
    /\ state[ret.fut] # PENDING
    /\ ready # <<>>
    /\ ready[Len(ready)] = Handle(EnvCb(ret.arg), ret.fut)
    /\ CallbacksOf(ran, ret.fut) = <<>>

\* C6: the loop runs handles in the order call_soon received them; the
\* callbacks of a Future that have run, then those scheduled, then those
\* still pending are its registrations (less those removed while pending)
\* in registration order, each once; a settled Future has no pending
\* callback.
C6_RegistrationOrder ==
    /\ ran \o ready = enqueued
    /\ \A f \in Futures :
           /\ CallbacksOf(ran \o ready, f) \o callbacks[f] = regs[f]
           /\ state[f] # PENDING => callbacks[f] = <<>>

\* C6: a settled Future with two registrations of different callbacks,
\* both of which the loop has run, in registration order.
C6_Witness ==
    \E f \in Futures :
        /\ Len(regs[f]) = 2
        /\ regs[f][1] # regs[f][2]
        /\ CallbacksOf(ran, f) = regs[f]
        /\ state[f] # PENDING

\* ------------------------------------------------------------------------
\* Properties of Task (under TaskSpec)

\* The step is a cancel() call on the unsettled Task t, whose waiter is
\* pending: the waiter's own cancel() returns True.
CancelForwarded(t) ==
    /\ ret'.op = "cancel"
    /\ ret'.fut = t
    /\ t \in all_tasks
    /\ state[t] = PENDING
    /\ fut_waiter[t] # None
    /\ state[fut_waiter[t]] = PENDING

Swallowed(i) ==
    /\ i \in all_tasks
    /\ coro[i].catches
    /\ Len(resumed[i]) = 2
    /\ resumed[i][2] = [how |-> "throw", val |-> "CancelledError"]
    /\ state[i] = FINISHED
    /\ exception[i] = None

\* cancel() on Task o returned True after its waiter, Task i, accepted it.
CancelledAwaiting(o, i) ==
    [waiter |-> i, accepted |-> "True"] \in cancel_log[o]

Count(hs, hd) == Cardinality({i \in 1..Len(hs) : hs[i] = hd})

\* What a Task awaiting the settled Future f is to receive.
OutcomeOf(f) ==
    IF state[f] = CANCELLED THEN [how |-> "throw", val |-> "CancelledError"]
    ELSE IF exception[f] # None THEN [how |-> "throw", val |-> exception[f]]
    ELSE [how |-> "send", val |-> result[f]]

C10_FireCallsAll ==
    [][(ret'.op = "fire" /\ ~silenced) =>
           /\ ret'.exc = None
           /\ fired' = fired + 1
           /\ Len(calls') = Len(handlers')
           /\ Len(handlers') >= Len(handlers)
           /\ \A i \in 1..Len(handlers) : handlers'[i] = handlers[i]
           /\ \A i \in 1..Len(handlers') :
                  calls'[i].cb = handlers'[i] /\ calls'[i].arg = ret'.arg]_vars

\* C10: three callbacks A, B, C bound, B raising: the first fire has called
\* all three, reported B's exception and returned normally.
C10_Witness ==
    /\ ret.op = "fire"
    /\ ret.exc = None
    /\ fired = 1
    /\ handlers = <<"ok", "raises", "gen">>
    /\ Len(calls) = 3
    /\ calls[3].cb = "gen"
    /\ Len(sink) = 1

\* ------------------------------------------------------------------------
\* Properties of the dispatchers of one EventHandler (under HandlerSpec)

FireOps == {"fire_event", "fire"}

\* The step is a call of one of the methods ops on name n of handler h.
CallOn(ops, h, n) == ret'.op \in ops /\ ret'.fut = <<h, n>>

\* C11: a silenced dispatcher stays silenced whatever is called next; a fire
\* on a silenced dispatcher invokes no callback and leaves the dispatcher as
\* it was: the fire count of an Event, the unsettled state of a OneTime;
\* silence_event silences the dispatcher of a known name and changes nothing
\* for an unknown name.
C11_SilenceIsOneWay ==
    [][\A h \in Handlers, n \in Names :
         LET d == events[h][n]
         IN  /\ d.silenced => events'[h][n].silenced
             /\ (d.silenced /\ CallOn(FireOps, h, n)) =>
                    /\ delivered' = delivered
                    /\ events' = events
                    /\ ret'.exc = None
             /\ CallOn({"silence_event"}, h, n) =>
                    /\ ret'.exc = None
                    /\ delivered' = delivered /\ sink' = sink
                    /\ IF d.kind = None THEN events' = events
                       ELSE events'[h][n].silenced]_vars

\* A silenced OneTime with a callback bound has just been fired: it is still
\* pending and the callback is still bound.
C11_Witness ==
    /\ ret.op = "fire_event"
    /\ ret.fut = <<"h1", "start">>
    /\ ret.arg[2] = None
    /\ events["h1"]["start"].silenced
    /\ events["h1"]["start"].events.state = PENDING
    /\ events["h1"]["start"].events.callbacks # <<>>

\* The value a fire passes to the callbacks: the handler when arg is left out.
FiredValue(h, arg) == IF arg = None THEN h ELSE arg

\* The invocations of the callbacks cbs of name n of handler h with value v.
Deliveries(h, n, cbs, v) ==
    [i \in 1..Len(cbs) |-> Delivery(h, n, cbs[i].id, v, None)]

\* C12: a OneTime delivers at most once.  Its first fire invokes each callback
\* bound so far once, in order, with the value fired; from then on the stored
\* value stays, every invocation of its callbacks carries that value, and a
\* further fire (not silenced, without keyword arguments) invokes nothing and
\* changes no dispatcher: OneTime.fire raises InvalidStateError, fire_event
\* reports it to the error sink and returns nothing without raising.
C12_AtMostOnce ==
    [][\A h \in Handlers, n \in Names :
         LET d == events[h][n]
             d2 == events'[h][n]
             fire == /\ CallOn(FireOps, h, n)
                     /\ ~ d.silenced
                     /\ ret'.arg[2] = None
         IN  d.kind = "OneTime" =>
             /\ (d.events.state = PENDING /\ fire) =>
                    /\ d2.events.state = FINISHED
                    /\ d2.events.result = FiredValue(h, ret'.arg[1])
                    /\ d2.events.callbacks = <<>>
                    /\ delivered' = delivered \o
                           Deliveries(h, n, d.events.callbacks,
                                      FiredValue(h, ret'.arg[1]))
             /\ d.events.state # PENDING =>
                    /\ d2.events.state = d.events.state
                    /\ d2.events.result = d.events.result
                    /\ \A i \in 1..Len(delivered') :
                           (delivered'[i].h = h /\ delivered'[i].n = n) =>
                               delivered'[i].arg = d.events.result
             /\ (d.events.state # PENDING /\ fire) =>
                    /\ delivered' = delivered
                    /\ events' = events
                    /\ IF ret'.op = "fire"
                       THEN ret'.exc = "InvalidStateError" /\ sink' = sink
                       ELSE /\ ret'.exc = None /\ ret'.val = None
                            /\ sink' = Append(sink, "already fired")]_vars

\* fire_event("start", "v2") has just been reported, after two callbacks
\* bound to "start" were invoked with "v1", the value that is still stored.
C12_Witness ==
    /\ ret.op = "fire_event"
    /\ ret.fut = <<"h1", "start">>
    /\ ret.arg = <<"v2", None>>
    /\ sink = <<"already fired">>
    /\ events["h1"]["start"].events.result = "v1"
    /\ delivered = <<Delivery("h1", "start", "p", "v1", None),
                     Delivery("h1", "start", "q", "v1", None)>>

\* The entries of the callbacks of a OneTime that bind_event(callback, errback)
\* adds: errback goes with a single callable only.
Bound(callback, errback) ==
    [i \in 1..Len(callback.cbs) |->
        BoundCb(callback.cbs[i], IF callback.list THEN None ELSE errback)]

\* The invocations of the callbacks of name n of handler h among log.
DeliveredTo(log, h, n) ==
    SelectSeq(log, LAMBDA x : x.h = h /\ x.n = n)

\* C13: no delivery of a OneTime is lost.  fired() is 0 until the first fire
\* and 1 from then on.  A bind_event that is accepted before the fire queues
\* its callbacks and invokes nothing, and the fire invokes each queued
\* callback once, in order; a bind_event accepted after the fire invokes its
\* callbacks within the call, once each, with the stored value, and leaves
\* nothing queued.  No other call invokes a callback of the OneTime.
C13_NoDeliveryLost ==
    /\ \A h \in Handlers, n \in Names : OneTime_fired(events[h][n]) = 0
    /\ [][\A h \in Handlers, n \in Names :
            LET d == events[h][n]
                d2 == events'[h][n]
                bind == CallOn({"bind_event"}, h, n) /\ ret'.exc = None
                fire == /\ CallOn(FireOps, h, n)
                        /\ ~ d.silenced
                        /\ ret'.arg[2] = None
                new == DeliveredTo(delivered', h, n)
                old == DeliveredTo(delivered, h, n)
            IN  d.kind = "OneTime" =>
                /\ OneTime_fired(d2) =
                       (IF OneTime_fired(d) = 1 \/ fire THEN 1 ELSE 0)
                /\ (OneTime_fired(d) = 0 /\ bind) =>
                       /\ new = old
                       /\ d2.events.callbacks = d.events.callbacks \o
                              Bound(ret'.arg[1], ret'.arg[2])
                /\ (OneTime_fired(d) = 0 /\ fire) =>
                       /\ new = old \o Deliveries(h, n, d.events.callbacks,
                                                  d2.events.result)
                       /\ d2.events.callbacks = <<>>
                /\ (OneTime_fired(d) = 1 /\ bind) =>
                       /\ new = old \o
                              Deliveries(h, n, Bound(ret'.arg[1], ret'.arg[2]),
                                         d.events.result)
                       /\ d2.events.callbacks = <<>>
                /\ ~ (bind \/ (OneTime_fired(d) = 0 /\ fire)) =>
                       /\ new = old
                       /\ d2.events.callbacks = d.events.callbacks]_vars

\* A list of two callbacks has just been bound to "start", which had fired
\* "v1" to the callback bound before: the three invocations carry "v1".
C13_Witness ==
    /\ ret.op = "bind_event"
    /\ ret.fut = <<"h1", "start">>
    /\ ret.exc = None
    /\ OneTime_fired(events["h1"]["start"]) = 1
    /\ delivered = <<Delivery("h1", "start", "p", "v1", None),
                     Delivery("h1", "start", "p", "v1", None),
                     Delivery("h1", "start", "q", "v1", None)>>

\* The usage errors of a step on name n of handler h: fire_event of a name
\* without dispatcher, a second fire_event of a OneTime, fire_event of a
\* OneTime with keyword arguments (neither of them silenced), and bind_event
\* of a list of callbacks with an errback.
UnknownFire(h, n) ==
    CallOn({"fire_event"}, h, n) /\ events[h][n].kind = None
DoubleFire(h, n) ==
    /\ CallOn({"fire_event"}, h, n)
    /\ events[h][n].kind = "OneTime" /\ ~ events[h][n].silenced
    /\ OneTime_fired(events[h][n]) = 1
    /\ ret'.arg[2] = None
KeywordFire(h, n) ==
    /\ CallOn({"fire_event"}, h, n)
    /\ events[h][n].kind = "OneTime" /\ ~ events[h][n].silenced
    /\ ret'.arg[2] # None
ListWithErrback(h, n) ==
    /\ CallOn({"bind_event"}, h, n)
    /\ ret'.arg[1].list
    /\ ret'.arg[2] # None

\* C14 as stated: a call with any of the four usage errors reports to the
\* error sink, returns normally and has no effect.
C14_NeverRaises ==
    [][\A h \in Handlers, n \in Names :
         (\/ UnknownFire(h, n) \/ DoubleFire(h, n)
          \/ KeywordFire(h, n) \/ ListWithErrback(h, n)) =>
             /\ ret'.exc = None
             /\ Len(sink') = Len(sink) + 1
             /\ events' = events
             /\ delivered' = delivered]_vars

\* C14, amended: fire_event of an unknown name and a second fire_event of a
\* OneTime report to the error sink, return nothing and have no effect;
\* fire_event of a OneTime with keyword arguments raises ValueError and
\* bind_event of a list with an errback raises AssertionError, neither is
\* reported, no callback is invoked or bound and no dispatcher settled, but
\* bind_event has created the Event of a name it did not know.
C14_UsageErrors ==
    [][\A h \in Handlers, n \in Names :
         /\ (UnknownFire(h, n) \/ DoubleFire(h, n)) =>
                /\ ret'.exc = None /\ ret'.val = None
                /\ Len(sink') = Len(sink) + 1
                /\ events' = events
                /\ delivered' = delivered
         /\ KeywordFire(h, n) =>
                /\ ret'.exc = "ValueError"
                /\ sink' = sink
                /\ events' = events
                /\ delivered' = delivered
         /\ ListWithErrback(h, n) =>
                /\ ret'.exc = "AssertionError"
                /\ sink' = sink
                /\ delivered' = delivered
                /\ events' = IF events[h][n].kind = None
                             THEN [events EXCEPT ![h][n] = NewEvent]
                             ELSE events]_vars

\* fire_event("start", "v1", k=1) has just raised ValueError: the callback
\* bound to "start" is still queued and nothing was reported.
C14_Witness ==
    /\ ret.op = "fire_event"
    /\ ret.fut = <<"h1", "start">>
    /\ ret.arg = <<"v1", "k=1">>
    /\ ret.exc = "ValueError"
    /\ events["h1"]["start"].events.callbacks # <<>>
    /\ events["h1"]["start"].events.state = PENDING
    /\ sink = <<>>

\* C15: fire_event of a name without dispatcher returns nothing, invokes no
\* callback and leaves every dictionary and every dispatcher as it was: the
\* name has no dispatcher afterwards either, whereas bind_event of such a
\* name leaves it with a dispatcher.
C15_UnknownFireIsFrameNeutral ==
    [][\A h \in Handlers, n \in Names :
         events[h][n].kind = None =>
             /\ CallOn({"fire_event"}, h, n) =>
                    /\ ret'.val = None /\ ret'.exc = None
                    /\ delivered' = delivered
                    /\ events' = events
                    /\ events'[h][n] = NoDispatcher
             /\ CallOn({"bind_event"}, h, n) =>
                    events'[h][n].kind # None]_vars

\* fire_event("late") has just returned on a handler that does not know
\* "late" and has a callback bound to "start": it is still bound, not called.
C15_Witness ==
    /\ ret.op = "fire_event"
    /\ ret.fut = <<"h1", "late">>
    /\ ret.exc = None
    /\ events["h1"]["late"].kind = None
    /\ events["h1"]["start"].events.callbacks # <<>>
    /\ delivered = <<>>
    /\ sink = <<"Unknown event">>

\* ------------------------------------------------------------------------
\* Properties of two EventHandlers (under PairSpec)

\* s is a prefix of t.
IsPrefix(s, t) == Len(s) <= Len(t) /\ SubSeq(t, 1, Len(s)) = s

\* Dispatcher d2 is the object d after some calls: of the same class, with
\* the callbacks, the fires, the silence and the settlements d had.
SameDispatcher(d, d2) ==
    /\ d2.kind = d.kind
    /\ d.silenced => d2.silenced
    /\ IsPrefix(d.handlers, d2.handlers)
    /\ d.fired <= d2.fired
    /\ d.events.state # PENDING => d2.events = d.events
    /\ d.self.state # PENDING =>
           d2.self.state = d.self.state /\ d2.self.result = d.self.result
    /\ d.self.chained_to # {} => d2.self.chained_to = d.self.chained_to

C17_ChainOnlyOneTime ==
    [][\A h \in Handlers, n \in Names :
         CallOn({"chain_event"}, h, n) =>
             LET other == ret'.arg[1]
                 links == /\ events[h][n].kind = "OneTime"
                          /\ other \in Handlers
                          /\ events[other][n].kind # None
             IN  /\ ret'.exc = None
                 /\ IF links
                    THEN events'[other][n].self.chained_to # {}
                    ELSE /\ events' = events
                         /\ delivered' = delivered
                         /\ sink' = sink]_vars

\* C18: copy_many_times_events(other) appends to the handler, in order, the
\* callbacks of each Event of other under whose name the handler has an Event
\* too; every other dispatcher of the handler, a OneTime under the name of an
\* Event of other among them, and every dispatcher of other stay as they are,
\* and no dispatcher is created.
C18_CopyOnlyIntoEvents ==
    [][\A h \in Handlers :
         CallOn({"copy_many_times_events"}, h, None) =>
             LET other == ret'.arg[1]
             IN  /\ ret'.exc = None
                 /\ delivered' = delivered
                 /\ other \in Handlers => events'[other] = events[other]
                 /\ \A n \in Names :
                        LET d == events[h][n]
                        IN  IF /\ other \in Handlers
                               /\ events[other][n].kind = "Event"
                               /\ d.kind = "Event"
                            THEN events'[h][n] =
                                     [d EXCEPT !.handlers =
                                          @ \o events[other][n].handlers]
                            ELSE events'[h][n] = d]_vars

\* ------------------------------------------------------------------------
\* Properties of the audit of a failed Future (under Spec)

\* The step is the turn of the loop that runs the audit of Future f.
AuditRuns(f) ==
    /\ ret'.op = "_run_once"
    /\ ready # <<>>
    /\ Head(ready) = ActivateHandle(f)

\* The step is a call of result() or exception() on the finished Future f.
Retrieves(f) ==
    /\ ret'.op \in {"result", "exception"}
    /\ ret'.fut = f
    /\ state[f] = FINISHED

\* C19: set_exception on a pending Future enqueues the callbacks pending on
\* it, in order, and then its audit, which is enqueued at no other time; the
\* loop runs the handles in the order they were enqueued, so the audit runs
\* after those callbacks.  The audit reports the Future to the error sink,
\* once, when neither result() nor exception() was called on it since it was
\* settled; when one of them was, neither the audit nor any later step
\* reports it.
C19_AuditAfterCallbacks ==
    /\ [](/\ enqueued = ran \o ready
          /\ \A f \in Futures :
                 /\ Count(enqueued, ActivateHandle(f)) =
                        (IF exception[f] # None THEN 1 ELSE 0)
                 /\ Count(sink, f) <= 1
                 /\ tb_logger[f] = "logged" => Count(sink, f) = 1)
    /\ [][\A f \in Futures :
            /\ (ret'.op = "set_exception" /\ ret'.fut = f
                    /\ state[f] = PENDING) =>
                   /\ enqueued' = enqueued \o Scheduled(callbacks[f], f)
                                      \o <<ActivateHandle(f)>>
                   /\ tb_logger'[f] = "created"
                   /\ Count(sink', f) = 0
            /\ (Retrieves(f) /\ tb_logger[f] = "created") =>
                   tb_logger'[f] = "cleared" /\ sink' = sink
            /\ AuditRuns(f) =>
                   IF tb_logger[f] = "created"
                   THEN sink' = Append(sink, f) /\ tb_logger'[f] = "logged"
                   ELSE sink' = sink /\ tb_logger'[f] = tb_logger[f]
            /\ tb_logger[f] = "created" =>
                   \/ tb_logger'[f] = "created"
                   \/ Retrieves(f)
                   \/ AuditRuns(f)
            /\ tb_logger[f] = "cleared" =>
                   tb_logger'[f] = "cleared" /\ Count(sink', f) = Count(sink, f)
            /\ Count(sink', f) # Count(sink, f) =>
                   AuditRuns(f) /\ tb_logger[f] = "created"]_vars

\* The loop has run the callback that was pending on a Future at
\* set_exception and then its audit, which reported the Future.
C19_Witness ==
    /\ ret.op = "_run_once"
    /\ Len(ran) = 2
    /\ ran[1].kind = "cb"
    /\ ran[2] = ActivateHandle("f1")
    /\ ran[1].arg = "f1"
    /\ sink = <<"f1">>
    /\ tb_logger["f1"] = "logged"

\* ------------------------------------------------------------------------
\* Properties of Task.cancel without a waiter (under TaskSpec)

\* The step is the turn of the loop that runs a step of Task t.
StepRuns(t) ==
    /\ ret'.op = "_run_once"
    /\ ready # <<>>
    /\ Head(ready).kind \in {"step", "wakeup"}
    /\ Head(ready).id = t

\* C20: cancel() on a settled Task returns False and changes nothing.  On an
\* unsettled Task without waiter it returns True and arms the pending-cancel
\* flag of that Task, and nothing else: the Task is PENDING, no callback is
\* enqueued, its first step is still scheduled.  The flag stays armed until
\* the next step of the Task, which clears it and throws CancelledError into
\* the computation.
C20_CancelWithoutWaiter ==
    [][\A t \in Tasks :
         /\ (ret'.op = "cancel" /\ ret'.fut = t /\ t \in all_tasks) =>
                /\ state[t] # PENDING =>
                       /\ ret'.val = "False"
                       /\ UNCHANGED <<futVars, taskVars>>
                /\ (state[t] = PENDING /\ fut_waiter[t] = None) =>
                       /\ ret'.val = "True"
                       /\ must_cancel' = [must_cancel EXCEPT ![t] = TRUE]
                       /\ state'[t] = PENDING
                       /\ UNCHANGED <<futVars, fut_waiter, coro, resumed,
                                      all_tasks>>
                       /\ Count(ready, StepHandle(t)) = 1
         /\ must_cancel[t] =>
                IF StepRuns(t)
                THEN /\ ~ must_cancel'[t]
                     /\ resumed'[t] = Append(resumed[t],
                            [how |-> "throw", val |-> "CancelledError"])
                ELSE must_cancel'[t] /\ resumed'[t] = resumed[t]]_vars

\* The first step of a Task that was cancelled before it ran has just run:
\* the flag is consumed, the computation got CancelledError and nothing
\* else, and the Task is CANCELLED.
C20_Witness ==
    /\ ret.op = "_run_once"
    /\ ret.fut = "t1"
    /\ [waiter |-> None, accepted |-> "False"] \in cancel_log["t1"]
    /\ ~ must_cancel["t1"]
    /\ resumed["t1"] = <<[how |-> "throw", val |-> "CancelledError"]>>
    /\ state["t1"] = CANCELLED

\* ------------------------------------------------------------------------
\* Properties of the construction of a Task (under TaskSpec)

\* C21: the construction of a Task resumes no computation and runs no
\* handle: it enqueues the first step of the Task, once, behind the handles
\* enqueued before, leaves the Task PENDING without waiter and with the
\* pending-cancel flag clear, and adds it to the live Tasks; the loop runs
\* the handles in the order they were enqueued, so the first step runs after
\* what was enqueued before the construction.
C21_ConstructionOnlySchedules ==
    /\ [](enqueued = ran \o ready)
    /\ [][\A t \in Tasks :
            (ret'.op = "Task" /\ ret'.fut = t /\ t \notin all_tasks) =>
                /\ enqueued' = Append(enqueued, StepHandle(t))
                /\ ready' = Append(ready, StepHandle(t))
                /\ Count(enqueued', StepHandle(t)) = 1
                /\ ran' = ran
                /\ resumed' = resumed
                /\ resumed'[t] = <<>>
                /\ coro'[t].pc = "start"
                /\ state' = state /\ state'[t] = PENDING
                /\ fut_waiter' = fut_waiter /\ fut_waiter'[t] = None
                /\ must_cancel' = must_cancel /\ ~ must_cancel'[t]
                /\ callbacks' = callbacks
                /\ all_tasks' = all_tasks \cup {t}]_vars

\* Task t2 has just been constructed while a handle of t1 was waiting in the
\* ready queue: the first step of t2 is enqueued behind it and has not run.
C21_Witness ==
    /\ ret.op = "Task"
    /\ ret.fut = "t2"
    /\ Len(ready) >= 2
    /\ ready[1].id = "t1"
    /\ ready[Len(ready)] = StepHandle("t2")
    /\ resumed["t2"] = <<>>
    /\ all_tasks = {"t1", "t2"}

\* ------------------------------------------------------------------------
\* Properties of a cancel() the waiter refuses (under TaskSpec)

\* cancel() on the Task t found a waiter that has settled already.
CancelRefused(t) ==
    /\ ret'.op = "cancel"
    /\ ret'.fut = t
    /\ t \in all_tasks
    /\ state[t] = PENDING
    /\ fut_waiter[t] # None
    /\ state[fut_waiter[t]] # PENDING

\* The cancel() of x was honoured by this step: a Future is CANCELLED, a
\* Task has its flag armed or its own waiter CANCELLED.
CancelTaken(x) ==
    IF x \in Futures THEN state'[x] = CANCELLED
    ELSE \/ must_cancel'[x]
         \/ fut_waiter[x] \in Futures /\ state'[fut_waiter[x]] = CANCELLED

\* C24: cancel() on an unsettled Task always returns True.  When its waiter
\* has settled (the wakeup of the Task is in the ready queue and has not
\* run), the waiter keeps its state, the flag of the Task is armed and the
\* wakeup stays enqueued; the wakeup then throws the cancellation into the
\* computation.  Whenever cancel() on a Task returns True, the cancel of its
\* waiter was honoured or its flag is armed.
C24_RefusedCancelArmsFlag ==
    [][\A t \in Tasks :
         /\ (ret'.op = "cancel" /\ ret'.fut = t /\ t \in all_tasks) =>
                /\ state[t] = PENDING => ret'.val = "True"
                /\ ret'.val = "True" =>
                       \/ must_cancel'[t]
                       \/ fut_waiter[t] # None /\ CancelTaken(fut_waiter[t])
         /\ CancelRefused(t) =>
                LET w == fut_waiter[t]
                IN  /\ ret'.val = "True"
                    /\ must_cancel'[t]
                    /\ state' = state
                    /\ fut_waiter'[t] = w
                    /\ ready' = ready
                    /\ Count(ready, Handle(WakeupCb(t), w)) = 1
                    /\ resumed' = resumed
         /\ (must_cancel[t] /\ StepRuns(t) /\ Head(ready).kind = "wakeup") =>
                /\ resumed'[t] = Append(resumed[t],
                       [how |-> "throw", val |-> "CancelledError"])
                /\ ~ must_cancel'[t]]_vars

\* cancel() on Task t1 has just returned True with the flag armed: its
\* waiter f1 had finished and refused the cancel, and the wakeup of t1 is
\* still in the ready queue.
C24_Witness ==
    /\ ret.op = "cancel"
    /\ ret.fut = "t1"
    /\ ret.val = "True"
    /\ fut_waiter["t1"] = "f1"
    /\ state["f1"] = FINISHED
    /\ cancel_log["t1"] = {[waiter |-> "f1", accepted |-> "False"]}
    /\ must_cancel["t1"]
    /\ state["t1"] = PENDING
    /\ Count(ready, Handle(WakeupCb("t1"), "f1")) = 1

\* ------------------------------------------------------------------------
\* Properties of a bind made while the Event fires (under EventSpec)

\* C22: a fire of an Event that is not silenced calls the callbacks bound
\* when it started, each once and in binding order, and no other: a callback
\* bound by one of them during the pass is on the list afterwards and is not
\* called by this fire.
C22_FireCallsSnapshot ==
    [][(ret'.op = "fire" /\ ~silenced) =>
           /\ Len(calls') = Len(handlers)
           /\ \A i \in 1..Len(handlers) : calls'[i].cb = handlers[i]
           /\ Len(handlers') >= Len(handlers)]_vars

\* ------------------------------------------------------------------------
\* Properties of the settlement of a OneTime (under OneTimeSpec)

\* The callbacks a fire pass over the pile cbs calls: those of the pile in
\* order, then the callback bound by each Rebinder among them.
RECURSIVE Pass(_)
Pass(cbs) ==
    IF cbs = <<>> THEN <<>>
    ELSE <<Head(cbs)>> \o
         Pass(IF Head(cbs).id = Rebinder
              THEN Append(Tail(cbs), BoundCb("p", None))
              ELSE Tail(cbs))

\* C23: the first fire of a OneTime that is not silenced and not chained
\* calls every callback bound before it and every callback bound by one of
\* them during the pass, each once and with the value fired, and settles
\* the OneTime itself with that value within the call, when _events is
\* settled and has no callback left; the OneTime never settles itself at
\* another point, and once settled it keeps its state and value.
C23_SettlesWhenQuiescent ==
    /\ [](\A h \in Handlers, n \in Names :
              LET d == events[h][n]
              IN  /\ d.quiet
                  /\ d.self.state # PENDING =>
                         /\ d.kind = "OneTime"
                         /\ d.events.state = FINISHED
                         /\ d.events.callbacks = <<>>
                         /\ d.self.result = d.events.result)
    /\ [][\A h \in Handlers, n \in Names :
            LET d == events[h][n]
                d2 == events'[h][n]
                v == FiredValue(h, ret'.arg[1])
                fire == /\ CallOn(FireOps, h, n)
                        /\ d.kind = "OneTime"
                        /\ ~ d.silenced
                        /\ ret'.arg[2] = None
                        /\ d.events.state = PENDING
                        /\ d.self.chained_to = {}
            IN  /\ fire =>
                       /\ d.self.state = PENDING
                       /\ d2.self.state = FINISHED
                       /\ d2.self.result = v
                       /\ d2.events.callbacks = <<>>
                       /\ delivered' = delivered \o
                              Deliveries(h, n, Pass(d.events.callbacks), v)
                /\ d.self.state # PENDING => d2.self = d.self
                /\ d2.self.state # d.self.state => fire]_vars

\* "start", with a callback bound that binds another one when it is called,
\* has just been fired with "v1": both were called with "v1" and the OneTime
\* is settled with "v1".
C23_Witness ==
    /\ ret.op = "fire_event"
    /\ ret.fut = <<"h1", "start">>
    /\ ret.arg = <<"v1", None>>
    /\ delivered = <<Delivery("h1", "start", Rebinder, "v1", None),
                     Delivery("h1", "start", "p", "v1", None)>>
    /\ events["h1"]["start"].self.state = FINISHED
    /\ events["h1"]["start"].self.result = "v1"
    /\ events["h1"]["start"].events.callbacks = <<>>

\* "start" has just been fired with a Deferred as payload: _check settled
\* the OneTime after the callback bound before was called.
C23_CheckWitness ==
    /\ ret.op = "fire_event"
    /\ ret.fut = <<"h1", "start">>
    /\ ret.arg = <<DeferredArg, None>>
    /\ delivered = <<Delivery("h1", "start", "p", DeferredArg, None)>>
    /\ events["h1"]["start"].self.state = FINISHED
    /\ events["h1"]["start"].self.result = DeferredArg

\* ------------------------------------------------------------------------
\* Properties of the loops of copy_many_times_events (under CopySpec)

\* The callbacks the inner loop of the running copy has still to copy.
LeftToCopy(c, evs) ==
    Len(evs[c.other][NameOrder[c.k]].handlers) + 1 - c.i

\* C25: every turn of the inner loop of copy_many_times_events(other) that
\* binds a callback leaves one callback less to copy, whatever other is, the
\* handler itself included: the loop ends after as many binds as other's
\* Event held callbacks when the loop began, and the call returns.
C25_CopyTerminates ==
    [][(copying # NoCopy /\ copying' # NoCopy /\ copying'.i = copying.i + 1) =>
           LeftToCopy(copying', events') < LeftToCopy(copying, events)]_vars

\* A handler that copies itself with a callback bound to one of its Events
\* never leaves the inner loop: every bind makes the list it reads one longer
\* and the index stays within it.
C25_SelfCopyStaysInLoop ==
    /\ []((/\ copying # NoCopy
            /\ copying.h = copying.other
            /\ copying.k <= Len(NameOrder)
            /\ events[copying.h][NameOrder[copying.k]].kind = "Event"
            /\ copying.i > 1) =>
               copying.i <= Len(events[copying.h][NameOrder[copying.k]].handlers))
    /\ [][(copying # NoCopy /\ copying.h = copying.other
            /\ copying'.i = copying.i + 1) =>
               /\ copying'.k = copying.k
               /\ LeftToCopy(copying', events') = LeftToCopy(copying, events)]_vars

\* h2 is copying itself and has bound the callback of "mix" to "mix" twice
\* already.
C25_SelfCopyWitness ==
    /\ copying = CopyFrame("h2", "h2", 2, 3)
    /\ events["h2"]["mix"].handlers = <<"p", "p", "p">>
====
